---- MODULE Spec2Model ----
(***************************************************************************)
(* DVstick30 serial protocol driver (src/src/index.ts, class DVstick30):    *)
(* packet codec, stream assembler (addData / tryDecodePacketsFromBuffer),   *)
(* reply router (the #packets Subject with firstValueFrom + filter) and the *)
(* command methods built on them; and the audio-chunk reader of            *)
(* src/src/wav-reader.ts, whose chunks encodeSpeechPacket is given.         *)
(*                                                                          *)
(* Bytes are naturals 0..255, a Buffer is a sequence of bytes, a JS string  *)
(* is a sequence of character codes.                                        *)
(***************************************************************************)
EXTENDS Integers, Sequences, FiniteSets, TLC

\* ------------------------------------------------------------------ bounds

\* Most items (garbage bytes, frames) the device sends in an assembler run.
MaxItems == 3
\* Most items the device sends in a session run.
MaxReplies == 2
\* Most command calls made in a session run.
MaxCalls == 2

\* ------------------------------------------------------- program constants

MAGIC == 97
CONTROL == 0
AMBE == 1
PCM == 2
\* What payload[0] reads from an empty Buffer (JS undefined).
Undefined == -1

PACKET_TYPE_TO_ID(packetType) ==
    CASE packetType = "control" -> 0
      [] packetType = "speech" -> 2
      [] packetType = "channel" -> 1

\* ------------------------------------------------------- Buffer primitives

\* Buffer.indexOf(byte): zero-based index of the first occurrence, -1 if none.
IndexOf(buf, b) ==
    IF \E i \in 1..Len(buf) : buf[i] = b
    THEN (CHOOSE i \in 1..Len(buf) :
              buf[i] = b /\ \A j \in 1..(i - 1) : buf[j] # b) - 1
    ELSE -1

Min(a, b) == IF a < b THEN a ELSE b

\* Buffer.slice(start, end), zero-based, end exclusive, both clamped.
Slice(buf, start, end) == SubSeq(buf, Min(start, Len(buf)) + 1, Min(end, Len(buf)))

\* Buffer.slice(start)
SliceFrom(buf, start) == Slice(buf, start, Len(buf))

\* Buffer.readUInt16BE(offset)
ReadUInt16BE(buf, offset) == buf[offset + 1] * 256 + buf[offset + 2]

\* Buffer.writeUInt16BE(value) into a two-byte buffer
WriteUInt16BE(value) == << (value \div 256) % 256, value % 256 >>

\* Buffer.toString('ascii'): every byte decodes with its high bit cleared.
ToAscii(buf) == [i \in 1..Len(buf) |-> buf[i] % 128]

\* String.slice(0, -1): the string without its last character.
\* (Faulty variants: one that keeps the last character, one that removes it
\* only when it is the NUL delimiter.)
DropLastKeepingAll(str) == str
DropLastIfNul(str) ==
    IF str # << >> /\ str[Len(str)] = 0 THEN SubSeq(str, 1, Len(str) - 1) ELSE str
DropLast(str) == SubSeq(str, 1, Len(str) - 1)

\* Buffer.from(string) encodes the string as UTF-8: a character code below
\* 128 is one byte, a code in 128..255 is two bytes.
RECURSIVE Utf8(_)
Utf8(str) ==
    IF str = << >> THEN << >>
    ELSE LET c == Head(str) IN
         (IF c < 128 THEN << c >>
          ELSE << 192 + (c \div 64), 128 + (c % 64) >>) \o Utf8(Tail(str))

\* ------------------------------------------------------------ packet codec

\* The wire layout of one frame: magic, 16-bit big-endian payload length,
\* type byte, payload.
Frame(typeId, payload) ==
    << MAGIC >> \o WriteUInt16BE(Len(payload)) \o << typeId >> \o payload

encodePacket(packetType, payload) ==
    Frame(PACKET_TYPE_TO_ID(packetType), payload)

\* A decoded packet, every variant in one record shape; the fields a variant
\* does not have hold the fillers below.
Packet(type, controlPacketType, text, successfulInit, fieldIdentifier, payload) ==
    [type |-> type, controlPacketType |-> controlPacketType, text |-> text,
     successfulInit |-> successfulInit, fieldIdentifier |-> fieldIdentifier,
     payload |-> payload]

NoPacket == Packet("none", "none", << >>, FALSE, Undefined, << >>)

ControlResponse(controlPacketType) ==
    Packet("control-response", controlPacketType, << >>, FALSE, Undefined, << >>)

\* decodePacket's three outcomes: a packet, null, or a thrown exception.
Decoded(pkt) == [tag |-> "packet", pkt |-> pkt]
DecodedNull == [tag |-> "null", pkt |-> NoPacket]
DecodeThrows == [tag |-> "throw", pkt |-> NoPacket]

\* case DVSTICK_PACKET_TYPE.AMBE: the whole payload becomes the channel data.
DecodeAmbe(payload) ==
    Decoded(Packet("output-speech-packet", "none", << >>, FALSE, Undefined, payload))

\* The fallback after the inner switch: controlPacketType 'unknown'.
\* (A faulty variant that loses the remaining payload bytes.)
DecodeUnknownControlLosingPayload(fieldIdentifier, payload) ==
    Decoded(Packet("control-response", "unknown", << >>, FALSE, fieldIdentifier, << >>))
DecodeUnknownControl(fieldIdentifier, payload) ==
    Decoded(Packet("control-response", "unknown", << >>, FALSE, fieldIdentifier, payload))

\* case 0x0b: successfulInit is whether the status byte is 0.
\* payload.readUInt8() throws a RangeError on an empty buffer.
\* (A faulty variant that takes every status byte but 1 for success.)
DecodeInitUnlessOne(payload) ==
    IF Len(payload) = 0 THEN DecodeThrows
    ELSE Decoded([ControlResponse("PKT_INIT") EXCEPT !.successfulInit = (payload[1] # 1)])
DecodeInit(payload) ==
    IF Len(payload) = 0 THEN DecodeThrows
    ELSE Decoded([ControlResponse("PKT_INIT") EXCEPT !.successfulInit = (payload[1] = 0)])

\* case DVSTICK_PACKET_TYPE.CONTROL
DecodeControl(packetPayload) ==
    LET fieldIdentifier == IF Len(packetPayload) >= 1 THEN packetPayload[1] ELSE Undefined
        payload == SliceFrom(packetPayload, 1)
    IN  CASE fieldIdentifier = 48 ->
               Decoded([ControlResponse("PKT_PRODID") EXCEPT !.text = DropLast(ToAscii(payload))])
          [] fieldIdentifier = 49 ->
               Decoded([ControlResponse("PKT_VERSTRING") EXCEPT !.text = DropLast(ToAscii(payload))])
          [] fieldIdentifier = 9 ->
               Decoded(ControlResponse("PKT_RATET"))
          [] fieldIdentifier = 11 -> DecodeInit(payload)
          [] fieldIdentifier = 57 ->
               Decoded(ControlResponse("PKT_READY"))
          [] OTHER -> DecodeUnknownControl(fieldIdentifier, payload)

\* default: return null
\* (A faulty variant that passes a frame of unknown type on as a packet.)
DecodeDefaultPublishing(type, payload) == DecodeUnknownControl(type, payload)
DecodeDefault(type, payload) == DecodedNull

decodePacket(type, payload) ==
    CASE type = AMBE -> DecodeAmbe(payload)
      [] type = CONTROL -> DecodeControl(payload)
      [] OTHER -> DecodeDefault(type, payload)

\* -------------------------------------------------------- stream assembler

\* (A faulty variant that replaces #buffer instead of appending to it.)
addDataReplacing(buffer, buf) == buf
addData(buffer, buf) == buffer \o buf

\* "No start byte (yet)": what the drain leaves of a #buffer that holds no
\* magic byte; it returns without touching it.
\* (A faulty variant that discards the bytes as garbage.)
NoStartByteDiscarding(buffer) == << >>
NoStartByte(buffer) == buffer

\* "Packet too short": the header check of tryDecodePacketsFromBuffer.
PacketTooShort(buffer) == Len(buffer) < 5

\* const packetLength = length + 4: the frame's bytes, header included.
\* (A faulty variant that counts one header byte only.)
PacketLengthOneHeaderByte(length) == length + 1
PacketLength(length) == length + 4

\* One run of tryDecodePacketsFromBuffer with its recursive calls, on
\*   d.buffer   #buffer
\*   d.frames   the frames consumed so far (type, payload, decode outcome and,
\*              for a published one, its index in d.packets)
\*   d.packets  every packet handed to #packets.next so far
\*   d.threw    whether decodePacket threw (the run then ends with the frame
\*              still at the head of #buffer)
RECURSIVE tryDecodePacketsFromBuffer(_)
tryDecodePacketsFromBuffer(d) ==
    LET startByte == IndexOf(d.buffer, MAGIC) IN
    IF startByte = -1 THEN [d EXCEPT !.buffer = NoStartByte(d.buffer)]
    ELSE
      LET buffer == SliceFrom(d.buffer, startByte) IN
      IF PacketTooShort(buffer) THEN [d EXCEPT !.buffer = buffer]
      ELSE
        LET length == ReadUInt16BE(buffer, 1)
            packetLength == PacketLength(length)
        IN
        IF Len(buffer) < packetLength THEN [d EXCEPT !.buffer = buffer]
        ELSE
          LET packetType == buffer[4]
              payload == Slice(buffer, 4, packetLength)
              decoded == decodePacket(packetType, payload)
          IN
          IF decoded.tag = "throw"
          THEN [d EXCEPT !.buffer = buffer, !.threw = TRUE]
          ELSE
            LET packets == IF decoded.tag = "null" THEN d.packets
                           ELSE Append(d.packets, decoded.pkt)
                entry == [type |-> packetType, payload |-> payload,
                          tag |-> decoded.tag,
                          pub |-> IF decoded.tag = "null" THEN 0 ELSE Len(packets)]
            IN  tryDecodePacketsFromBuffer(
                    [buffer |-> SliceFrom(buffer, packetLength),
                     frames |-> Append(d.frames, entry),
                     packets |-> packets,
                     threw |-> FALSE])

\* The 'data' handler on a fresh assembler: addData(bytes), then the drain.
FeedOnce(bytes) ==
    tryDecodePacketsFromBuffer(
        [buffer |-> addData(<< >>, bytes), frames |-> << >>,
         packets |-> << >>, threw |-> FALSE])

\* ------------------------------------------------------------ the session

VARIABLES
    script,   \* what the device sends: a sequence of items (byte sequences)
    pos,      \* how many bytes of it the 'data' handler has received
    split,    \* history: whether they arrived in more than one chunk
    buffer,   \* DVstick30.#buffer
    frames,   \* history: the frames the drain consumed, in order
    packets,  \* history: the packets handed to #packets.next, in order
    threw,    \* whether the last 'data' handler ended in an exception
    crashed,  \* whether that exception ended the process
    calls,    \* the command calls made, in order, each with its wait
    written,  \* the buffers passed to #sp.write, in order
    writable  \* whether a write to #sp succeeds (the port is open and sound)

vars == << script, pos, split, buffer, frames, packets, threw, crashed, calls, written,
           writable >>

RECURSIVE Flatten(_)
Flatten(items) ==
    IF items = << >> THEN << >> ELSE Head(items) \o Flatten(Tail(items))

\* The byte stream the serial port delivers.
Wire == Flatten(script)

\* The offset in Wire at which item i starts.
ItemStart(i) == Len(Flatten(SubSeq(script, 1, i - 1)))
ItemEnd(i) == ItemStart(i) + Len(script[i])

Scripts(items, n) == UNION { [1..k -> items] : k \in 0..n }

\* Payloads the device may put in a frame.
VersionReply == << 49, 65, 0 >>
OtherVersionReply == << 49, 66, 67, 0 >>
ProductIdReply == << 48, 194, 0 >>
RateReply == << 9 >>
InitOkReply == << 11, 0 >>
InitFailedReply == << 11, 1 >>
InitOtherReply == << 11, 255 >>
InitTruncatedReply == << 11 >>
ReadyReply == << 57 >>
UnknownFieldReply == << 64, 5 >>
ChannelReply == << 1, 8, 7 >>
ChannelBadMarker == << 0, 8 >>
SpeechReply == << 0, 1, 5, 5 >>
SpeechShortReply == << 0, 3, 5, 5, 5, 5 >>
VersionOnlyField == << 49 >>
VersionNoDelimiter == << 49, 65 >>
ProductIdOnlyField == << 48 >>

\* What the device sends in an assembler run: stray bytes (one of them the
\* magic byte) and frames of every type, the empty payload included.
Items ==
    { << 0 >>, << MAGIC >> }
    \cup { Frame(CONTROL, p) : p \in { << >>, VersionReply, InitTruncatedReply,
                                       UnknownFieldReply } }
    \cup { Frame(AMBE, ChannelReply), Frame(3, RateReply) }

\* What the device sends in a session run.
ReplyItems ==
    { << MAGIC >> }
    \cup { Frame(CONTROL, p) : p \in { VersionReply, OtherVersionReply, ProductIdReply, RateReply, InitOkReply,
                                       InitFailedReply, InitOtherReply, InitTruncatedReply,
                                       ReadyReply, UnknownFieldReply } }
    \cup { Frame(AMBE, p) : p \in { ChannelReply, ChannelBadMarker } }
    \cup { Frame(3, RateReply) }

\* -- src/src/wav-reader.ts: the audio-chunk reader

\* The loop of chunkBuffer from index i on: buf.slice(i, i + chunkSize) for
\* i = 0, chunkSize, 2 * chunkSize, ... while i < buf.length.
RECURSIVE chunkBufferFrom(_, _, _)
chunkBufferFrom(buf, chunkSize, i) ==
    IF i < Len(buf)
    THEN << Slice(buf, i, i + chunkSize) >> \o chunkBufferFrom(buf, chunkSize, i + chunkSize)
    ELSE << >>

chunkBuffer(buf, chunkSize) == chunkBufferFrom(buf, chunkSize, 0)

\* The chunk size getWavChunks passes to chunkBuffer, in bytes.
CHUNK_SIZE == 160

getWavChunks(samples) == chunkBuffer(samples, CHUNK_SIZE)

\* The samples of a wav file (16 bit mono, two bytes a sample): 120 samples of
\* silence, which is one full chunk and a shorter final chunk.
WavSamples == [i \in 1..240 |-> 0]

\* exampleSpeechDataPacket: 160 samples of two bytes, the sample numbers
\* 0..159 big-endian, but for the two samples the literal has as 0001 6017.
exampleSpeechDataPacket ==
    [i \in 1..320 |->
        LET k == (i - 1) \div 2
            high == (i % 2 = 1)
        IN  CASE k = 22 -> IF high THEN 0 ELSE 1
              [] k = 23 -> IF high THEN 96 ELSE 23
              [] OTHER -> IF high THEN 0 ELSE k]

\* Arguments of the commands that take one.
Rates == { 33, 200 }
SpeechData == { exampleSpeechDataPacket }
WavChunks == { getWavChunks(WavSamples)[c] : c \in DOMAIN getWavChunks(WavSamples) }

InitWith(scripts) ==
    /\ script \in scripts
    /\ pos = 0
    /\ split = FALSE
    /\ buffer = << >>
    /\ frames = << >>
    /\ packets = << >>
    /\ threw = FALSE
    /\ crashed = FALSE
    /\ calls = << >>
    /\ written = << >>
    /\ writable = TRUE

Init == InitWith(Scripts(ReplyItems, MaxReplies))

\* -- the reply router: #packets (a Subject) and firstValueFrom(filter(...))

\* The filter predicate each command passes to firstValueFrom.
\* (A faulty variant that tests the packet's type only.)
MatchesByTypeOnly(cmd, packet) ==
    IF cmd = "encodeSpeechPacket" THEN packet.type = "output-speech-packet"
    ELSE cmd # "setRateP" /\ packet.type = "control-response"
Matches(cmd, packet) ==
    CASE cmd = "setRateT" ->
           packet.type = "control-response" /\ packet.controlPacketType = "PKT_RATET"
      [] cmd = "init" ->
           packet.type = "control-response" /\ packet.controlPacketType = "PKT_INIT"
      [] cmd = "getVersion" ->
           packet.type = "control-response" /\ packet.controlPacketType = "PKT_VERSTRING"
      [] cmd = "reset" ->
           packet.type = "control-response" /\ packet.controlPacketType = "PKT_READY"
      [] cmd = "getProductId" ->
           packet.type = "control-response" /\ packet.controlPacketType = "PKT_PRODID"
      [] cmd = "encodeSpeechPacket" ->
           packet.type = "output-speech-packet"
      [] OTHER -> FALSE

\* Whether a call's wait takes the packet: it is subscribed (pending) and the
\* filter passes the packet.
Takes(call, packet) == call.state = "pending" /\ Matches(call.cmd, packet)

\* (Faulty variants: a wait that is never unsubscribed, and a subject that
\* hands a packet to its first taker only.)
nextResubscribing(cs, packet, index) ==
    [i \in DOMAIN cs |->
        IF cs[i].state \in {"pending", "resolved"} /\ Matches(cs[i].cmd, packet)
        THEN [cs[i] EXCEPT !.state = "resolved", !.by = index, !.reply = packet]
        ELSE cs[i]]
nextToFirstOnly(cs, packet, index) ==
    [i \in DOMAIN cs |->
        IF Takes(cs[i], packet) /\ \A j \in 1..(i - 1) : ~Takes(cs[j], packet)
        THEN [cs[i] EXCEPT !.state = "resolved", !.by = index, !.reply = packet]
        ELSE cs[i]]

\* #packets.next(packet): every subscribed wait whose filter passes the packet
\* resolves with it and unsubscribes. index is the packet's place in packets.
next(cs, packet, index) ==
    [i \in DOMAIN cs |->
        IF Takes(cs[i], packet)
        THEN [cs[i] EXCEPT !.state = "resolved", !.by = index, !.reply = packet]
        ELSE cs[i]]

\* The next calls of one drain, in order: packets from..Len(all).
RECURSIVE Publish(_, _, _)
Publish(cs, all, from) ==
    IF from > Len(all) THEN cs
    ELSE Publish(next(cs, all[from], from), all, from + 1)

\* -- serialport.on('data', ...): addData, then tryDecodePacketsFromBuffer,
\* for a chunk of the next n bytes of the wire.
\* An exception thrown by decodePacket leaves the handler; whether that ends
\* the process is up to the host, so both outcomes are possible.
Handle(n) ==
    LET data == SubSeq(Wire, pos + 1, pos + n)
        d == tryDecodePacketsFromBuffer(
                 [buffer |-> addData(buffer, data), frames |-> frames,
                  packets |-> packets, threw |-> FALSE])
    IN  /\ buffer' = d.buffer
        /\ frames' = d.frames
        /\ packets' = d.packets
        /\ threw' = d.threw
        /\ crashed' \in (IF d.threw THEN BOOLEAN ELSE {FALSE})
        /\ calls' = Publish(calls, d.packets, Len(packets) + 1)
        /\ pos' = pos + n
        /\ split' = (pos > 0)
        /\ UNCHANGED << script, written, writable >>

\* The serial port may cut the stream into chunks at any byte.
OnData ==
    /\ ~crashed
    /\ \E n \in 1..(Len(Wire) - pos) : Handle(n)

\* In a session run the chunks end where an item ends or one byte before.
ChunkEnds ==
    UNION { { ItemEnd(i) - 1, ItemEnd(i) } : i \in DOMAIN script }

OnDataInSession ==
    /\ ~crashed
    /\ \E n \in 1..(Len(Wire) - pos) : pos + n \in ChunkEnds /\ Handle(n)

\* -- the commands

\* A command's wait as firstValueFrom registers it: pending, subscribed from
\* the packets published after this moment on.
\* arg is the command's argument, wrote the place in written of the buffer
\* the command passed to #sp.write (0 if it wrote nothing), failed whether that
\* write failed.
Wait(cmd) ==
    [cmd |-> cmd, state |-> "pending", since |-> Len(packets), at |-> pos,
     by |-> 0, reply |-> NoPacket, arg |-> << >>, wrote |-> 0, failed |-> FALSE]

\* The call of a command that passed its buffer to #sp.write. A write that
\* fails makes the port emit 'error', which the constructor's listener logs;
\* #sp.write is given no callback and its return value is not read.
\* (A faulty variant in which the wait is not subscribed in the step of the
\* write: the command first awaits the write.)
WroteNotYetSubscribed(cmd, arg) ==
    [Wait(cmd) EXCEPT !.arg = arg, !.wrote = Len(written) + 1, !.failed = ~writable,
                      !.state = "writing"]
Wrote(cmd, arg) ==
    [Wait(cmd) EXCEPT !.arg = arg, !.wrote = Len(written) + 1, !.failed = ~writable]

\* The fixed fields encodeSpeechPacket puts before the speech data.
PKT_CHANNEL0 == Utf8(<< 64 >>)
SPEECHD == << 0, 160 >>

\* A command can be called while the process runs.
CanCall == ~crashed /\ Len(calls) < MaxCalls

\* Every command below but setRateP is one synchronous step:
\* #sp.write(encodePacket(...)), then firstValueFrom subscribes to #packets.

setRateT ==
    /\ CanCall
    /\ \E rate \in Rates :
         /\ written' = Append(written, encodePacket("control", Utf8(<< 9, rate >>)))
         /\ calls' = Append(calls, Wrote("setRateT", << rate >>))
    /\ UNCHANGED << script, pos, split, buffer, frames, packets, threw, crashed, writable >>

\* throw new Error('Not implemented'): the call is rejected at once.
\* (A faulty variant that writes a request and waits for a reply that no case
\* of decodePacket produces.)
setRatePAwaiting ==
    /\ CanCall
    /\ written' = Append(written, encodePacket("control", Utf8(<< 10 >>)))
    /\ calls' = Append(calls, Wrote("setRateP", << >>))
    /\ UNCHANGED << script, pos, split, buffer, frames, packets, threw, crashed, writable >>
setRateP ==
    /\ CanCall
    /\ calls' = Append(calls, [Wait("setRateP") EXCEPT !.state = "rejected"])
    /\ UNCHANGED << script, pos, split, buffer, frames, packets, threw, crashed, written,
                    writable >>

init ==
    /\ CanCall
    /\ written' = Append(written, encodePacket("control", Utf8(<< 11, 3 >>)))
    /\ calls' = Append(calls, Wrote("init", << >>))
    /\ UNCHANGED << script, pos, split, buffer, frames, packets, threw, crashed, writable >>

getVersion ==
    /\ CanCall
    /\ written' = Append(written, encodePacket("control", Utf8(<< 49 >>)))
    /\ calls' = Append(calls, Wrote("getVersion", << >>))
    /\ UNCHANGED << script, pos, split, buffer, frames, packets, threw, crashed, writable >>

reset ==
    /\ CanCall
    /\ written' = Append(written, encodePacket("control", Utf8(<< 51 >>)))
    /\ calls' = Append(calls, Wrote("reset", << >>))
    /\ UNCHANGED << script, pos, split, buffer, frames, packets, threw, crashed, writable >>

getProductId ==
    /\ CanCall
    /\ written' = Append(written, encodePacket("control", Utf8(<< 48 >>)))
    /\ calls' = Append(calls, Wrote("getProductId", << >>))
    /\ UNCHANGED << script, pos, split, buffer, frames, packets, threw, crashed, writable >>

encodeSpeechPacket ==
    /\ CanCall
    /\ \E data \in SpeechData :
         /\ written' = Append(written,
                              encodePacket("speech", PKT_CHANNEL0 \o SPEECHD \o data))
         /\ calls' = Append(calls, Wrote("encodeSpeechPacket", data))
    /\ UNCHANGED << script, pos, split, buffer, frames, packets, threw, crashed, writable >>

\* What each command's promise resolves with, from the reply its wait took.
Result(call) ==
    CASE call.cmd = "init" -> call.reply.successfulInit
      [] call.cmd = "getVersion" -> call.reply.text
      [] call.cmd = "getProductId" -> call.reply.text
      [] call.cmd = "encodeSpeechPacket" -> call.reply.payload
      [] OTHER -> Undefined

Next ==
    \/ OnDataInSession
    \/ setRateT
    \/ setRateP
    \/ init
    \/ getVersion
    \/ reset
    \/ getProductId
    \/ encodeSpeechPacket

Spec == Init /\ [][Next]_vars

\* -- the command side: few kinds of reply, every kind of argument, and a
\* transport whose writes can fail.

\* encodeSpeechPacket called with a chunk of a wav file (the calls the main
\* program keeps commented out).
encodeSpeechPacketOfChunk ==
    /\ CanCall
    /\ \E data \in WavChunks :
         /\ written' = Append(written,
                              encodePacket("speech", PKT_CHANNEL0 \o SPEECHD \o data))
         /\ calls' = Append(calls, Wrote("encodeSpeechPacket", data))
    /\ UNCHANGED << script, pos, split, buffer, frames, packets, threw, crashed, writable >>

\* The port fails (the device is unplugged, the port closes): from now on a
\* write fails. The 'error' and 'close' listeners only log.
PortFails ==
    /\ writable
    /\ writable' = FALSE
    /\ UNCHANGED << script, pos, split, buffer, frames, packets, threw, crashed, calls,
                    written >>

TransportReplyItems ==
    { Frame(CONTROL, VersionReply), Frame(CONTROL, RateReply), Frame(AMBE, ChannelReply) }

InitTransport == InitWith(Scripts(TransportReplyItems, MaxReplies))

NextTransport ==
    \/ OnDataInSession
    \/ setRateT
    \/ setRateP
    \/ init
    \/ getVersion
    \/ reset
    \/ getProductId
    \/ encodeSpeechPacket
    \/ encodeSpeechPacketOfChunk
    \/ PortFails

SpecTransport == InitTransport /\ [][NextTransport]_vars

\* -- the earliest version of the program (src/unnamed/part_000): its class
\* has getVersion and setRateT only, its decodePacket the cases 0x31, 0x09 and
\* 'unknown' of the Control type, all as above; its top level calls
\* stick.getVersion() and stick.setRateT(33) back to back, awaiting neither,
\* and closes the port after a timeout.

\* What the device sends in such a run: the Control frames that both versions
\* decode alike, and a stray magic byte.
EarliestReplyItems ==
    { << MAGIC >> }
    \cup { Frame(CONTROL, p) : p \in { VersionReply, OtherVersionReply, RateReply,
                                       UnknownFieldReply } }

\* stick.getVersion().then(...); stick.setRateT(33): one synchronous run of
\* the top level, two writes and two waits, before any 'data' event.
EarliestMain ==
    /\ calls = << >>
    /\ pos = 0
    /\ written' = written \o << encodePacket("control", Utf8(<< 49 >>)),
                                encodePacket("control", Utf8(<< 9, 33 >>)) >>
    /\ calls' = << Wrote("getVersion", << >>),
                   [Wrote("setRateT", << 33 >>) EXCEPT !.wrote = Len(written) + 2] >>
    /\ UNCHANGED << script, pos, split, buffer, frames, packets, threw, crashed, writable >>

\* A 'data' event: after the top level has run, while the port is open.
EarliestOnData ==
    /\ calls # << >>
    /\ writable
    /\ OnDataInSession

\* setTimeout(() => serialport.close(), 1000)
EarliestClose ==
    /\ calls # << >>
    /\ PortFails

InitEarliest == InitWith(Scripts(EarliestReplyItems, MaxReplies))

NextEarliest ==
    \/ EarliestMain
    \/ EarliestOnData
    \/ EarliestClose

SpecEarliest == InitEarliest /\ [][NextEarliest]_vars

\* The stream assembler and codec on their own: no command is called, the
\* device sends any script of Items.
InitAssembler == InitWith(Scripts(Items, MaxItems))

NextAssembler == OnData

SpecAssembler == InitAssembler /\ [][NextAssembler]_vars

\* The decoder on its own: no command is called, the device sends any script
\* of frames of every type and of payloads of every shape (a text with and
\* without its delimiter, a field identifier alone, speech with a right and with
\* a wrong sample count) and stray bytes.
DecoderItems ==
    { << 0 >> }
    \cup { Frame(CONTROL, p) : p \in { VersionReply, OtherVersionReply, VersionOnlyField,
                                       VersionNoDelimiter, ProductIdReply,
                                       ProductIdOnlyField } }
    \cup { Frame(PCM, p) : p \in { SpeechReply, SpeechShortReply } }
    \cup { Frame(3, RateReply) }

InitDecoder == InitWith(Scripts(DecoderItems, MaxItems))

NextDecoder == OnDataInSession

SpecDecoder == InitDecoder /\ [][NextDecoder]_vars

\* ------------------------------------------------------------- properties

\* The bytes received so far.
Received == SubSeq(Wire, 1, pos)

\* The payloads a frame of the scripts can carry.
Payloads ==
    { << >>, VersionReply, OtherVersionReply, ProductIdReply, RateReply, InitOkReply,
      InitFailedReply, InitOtherReply, InitTruncatedReply, ReadyReply, UnknownFieldReply,
      ChannelReply, ChannelBadMarker, SpeechReply, SpeechShortReply, VersionOnlyField,
      VersionNoDelimiter, ProductIdOnlyField }

PacketTypes == { "control", "channel", "speech" }

\* The single-byte items: stray bytes, the magic byte among them.
IsGarbage(item) == Len(item) = 1

\* C1: however the bytes received so far were cut into chunks, the frames
\* consumed, the packets published, the buffer left and the outcome of the
\* last handler are those of one feed of the same bytes to a fresh assembler.
C1_SplitFeedsEqualSingleFeed ==
    LET one == FeedOnce(Received) IN
        /\ buffer = one.buffer
        /\ frames = one.frames
        /\ packets = one.packets
        /\ threw = one.threw

\* C1's case: bytes that arrived in several chunks, a frame consumed and an
\* unfinished frame left in the buffer.
C1_Witness ==
    /\ split
    /\ Len(frames) >= 1
    /\ Len(buffer) >= 2
    /\ buffer[1] = MAGIC
    /\ pos = Len(Wire)

\* C2: once encodePacket(t, p), sent alone, has been received whole (and the
\* handler did not throw), exactly the frame (t, p) has been consumed and the
\* buffer is empty.
C2_RoundTripThroughFraming ==
    \A t \in PacketTypes : \A p \in Payloads :
        (script = << encodePacket(t, p) >> /\ pos = Len(Wire) /\ ~threw)
        => /\ Len(frames) = 1
           /\ frames[1].type = PACKET_TYPE_TO_ID(t)
           /\ frames[1].payload = p
           /\ buffer = << >>

\* C3, in its first case (stray bytes none of which is the magic byte): once
\* such bytes followed by one valid frame have been received whole (and the
\* handler did not throw), exactly that frame has been consumed.
C3_GarbageThenFrame ==
    \A t \in { CONTROL, AMBE, PCM } : \A p \in Payloads :
        LET n == Len(script) IN
        ( /\ n >= 2
          /\ \A i \in 1..(n - 1) : IsGarbage(script[i]) /\ script[i] # << MAGIC >>
          /\ script[n] = Frame(t, p)
          /\ pos = Len(Wire)
          /\ ~threw )
        => /\ Len(frames) = 1
           /\ frames[1].type = t
           /\ frames[1].payload = p

\* C4: after a handler that did not throw, a buffer that starts with the magic
\* byte and holds the four header bytes holds fewer than 4 + L bytes: a frame
\* that is complete (one with L = 0 and exactly four bytes included) has been
\* consumed.
C4_CompleteFrameIsExtracted ==
    (~threw /\ Len(buffer) >= 4 /\ buffer[1] = MAGIC)
    => Len(buffer) < 4 + ReadUInt16BE(buffer, 1)

\* The packets published after a call subscribed that its filter passes.
MatchesSince(call) ==
    { k \in (call.since + 1)..Len(packets) : Matches(call.cmd, packets[k]) }

FirstOf(S) == CHOOSE k \in S : \A m \in S : k <= m

\* C5: a wait has resolved exactly when a packet published after its call
\* passes its filter, and then it holds the first such packet: no packet
\* published before the call, no packet the filter rejects and no later
\* packet is what it resolved with.
C5_ResolvesWithFirstMatchAfterCall ==
    \A i \in DOMAIN calls :
        calls[i].state # "rejected" =>
            IF MatchesSince(calls[i]) = {}
            THEN calls[i].state = "pending" /\ calls[i].by = 0
            ELSE /\ calls[i].state = "resolved"
                 /\ calls[i].by = FirstOf(MatchesSince(calls[i]))
                 /\ calls[i].reply = packets[calls[i].by]

\* C5's case: a wait called after a packet its filter passes was published,
\* resolved by the next such packet.
C5_Witness ==
    \E i \in DOMAIN calls :
        /\ calls[i].state = "resolved"
        /\ calls[i].since >= 1
        /\ Matches(calls[i].cmd, packets[calls[i].since])
        /\ calls[i].by > calls[i].since

\* Whether an item is a Control frame with payload [0x31, c1..cn, delimiter].
IsVersionFrame(item) ==
    \E p \in { VersionReply, OtherVersionReply } : item = Frame(CONTROL, p)

\* The text c1..cn of such a frame.
VersionText(item) == ToAscii(SubSeq(item, 6, Len(item) - 1))

\* Whether the bytes before offset o leave no magic byte in the buffer.
CleanAt(o) == IndexOf(FeedOnce(SubSeq(Wire, 1, o)).buffer, MAGIC) = -1

C7_PacketResolvesAllOutstanding ==
    \A i \in DOMAIN calls : \A j \in DOMAIN calls :
        ( /\ i # j
          /\ calls[i].by > 0
          /\ calls[j].state # "rejected"
          /\ calls[j].since < calls[i].by
          /\ Matches(calls[j].cmd, packets[calls[i].by])
          /\ (calls[j].by = 0 \/ calls[j].by >= calls[i].by) )
        => /\ calls[j].by = calls[i].by
           /\ calls[j].reply = calls[i].reply

\* C7's case: two encodeSpeechPacket calls resolved by one packet.
C7_Witness ==
    /\ Len(calls) = 2
    /\ calls[1].cmd = "encodeSpeechPacket"
    /\ calls[2].cmd = "encodeSpeechPacket"
    /\ calls[1].by > 0
    /\ calls[2].by = calls[1].by
    /\ Len(packets) = 1

KnownTypes == { CONTROL, AMBE, PCM }

\* Whether an item is a complete frame of a type outside Control, AmbeChannel
\* and Pcm/Speech.
IsUnknownTypeFrame(item) ==
    /\ Len(item) >= 5
    /\ item[1] = MAGIC
    /\ item[4] \notin KnownTypes
    /\ Len(item) = 4 + ReadUInt16BE(item, 1)

KnownFields == { 48, 49, 9, 11, 57 }

\* payload[0] of a frame's payload.
FieldOf(payload) == IF payload = << >> THEN Undefined ELSE payload[1]

\* C9: a consumed Control frame whose field identifier is not a known one was
\* published as an 'unknown' control response carrying the field identifier
\* and the payload after it; and the frame on which a handler threw is not
\* such a frame.
C9_UnknownFieldDegrades ==
    /\ \A k \in DOMAIN frames :
         (frames[k].type = CONTROL /\ FieldOf(frames[k].payload) \notin KnownFields)
         => /\ frames[k].tag = "packet"
            /\ packets[frames[k].pub] =
                   Packet("control-response", "unknown", << >>, FALSE,
                          FieldOf(frames[k].payload), SliceFrom(frames[k].payload, 1))
    /\ threw =>
         ~( /\ buffer[4] = CONTROL
            /\ FieldOf(Slice(buffer, 4, 4 + ReadUInt16BE(buffer, 1))) \notin KnownFields )

\* C9's case: a Control frame with field identifier 0x40 and one more byte,
\* consumed.
C9_Witness ==
    \E k \in DOMAIN frames :
        /\ frames[k].type = CONTROL
        /\ frames[k].payload = UnknownFieldReply
        /\ packets[frames[k].pub].fieldIdentifier = 64
        /\ packets[frames[k].pub].payload = << 5 >>

\* C10: no AmbeChannel frame whose payload does not begin with the marker
\* byte 0x01 is published as a packet, and no encodeSpeechPacket call
\* resolves with one.
C10_BadMarkerIsRejected ==
    /\ \A k \in DOMAIN frames :
         (frames[k].type = AMBE /\ FieldOf(frames[k].payload) # 1)
         => frames[k].tag # "packet"
    /\ \A i \in DOMAIN calls :
         (calls[i].cmd = "encodeSpeechPacket" /\ calls[i].state = "resolved")
         => FieldOf(calls[i].reply.payload) = 1

\* The consumed frame that published packet number by.
FrameOf(by) == CHOOSE k \in DOMAIN frames : frames[k].pub = by

\* Whether a payload is [0x01, n, d1..dk]: the marker byte, a bit-count byte,
\* then the data.
HasMarker(payload) == Len(payload) >= 2 /\ payload[1] = 1

\* C11: a consumed AmbeChannel frame with payload [0x01, n, d1..dk] was
\* published as a packet whose data is d1..dk, without the marker and the
\* bit-count byte, and an encodeSpeechPacket call it resolved resolved with
\* d1..dk.
C11_ChannelDataExcludesMarkerAndBitCount ==
    /\ \A k \in DOMAIN frames :
         (frames[k].type = AMBE /\ HasMarker(frames[k].payload))
         => /\ frames[k].tag = "packet"
            /\ packets[frames[k].pub].payload = SliceFrom(frames[k].payload, 2)
    /\ \A i \in DOMAIN calls :
         ( /\ calls[i].cmd = "encodeSpeechPacket"
           /\ calls[i].state = "resolved"
           /\ HasMarker(frames[FrameOf(calls[i].by)].payload) )
         => Result(calls[i]) = SliceFrom(frames[FrameOf(calls[i].by)].payload, 2)

\* Whether a Pcm/Speech payload [0x00, n, data] carries 2 * n bytes of data.
SampleCountMatches(payload) ==
    Len(payload) >= 2 /\ payload[1] = 0 /\ Len(payload) - 2 = 2 * payload[2]

\* C12, its second half: no Pcm/Speech frame with payload [0x00, n, data] and
\* len(data) # 2 * n is consumed with the silent 'no packet' outcome of a frame
\* of unknown type.
C12_SpeechCountMismatchIsNotSilent ==
    \A k \in DOMAIN frames :
        ( /\ frames[k].type = PCM
          /\ Len(frames[k].payload) >= 2
          /\ frames[k].payload[1] = 0
          /\ ~SampleCountMatches(frames[k].payload) )
        => frames[k].tag # "null"

\* C13: setRateT(rate) passed to #sp.write exactly the six bytes
\* [0x61, 0x00, 0x02, 0x00, 0x09, rate].
C13_SetRateWritesSixBytes ==
    \A i \in DOMAIN calls :
        calls[i].cmd = "setRateT"
        => written[calls[i].wrote] = << MAGIC, 0, 2, CONTROL, 9, calls[i].arg[1] >>

\* C14: the Speech frame encodeSpeechPacket passed to #sp.write ends with the
\* PCM data it was given, and the sample-count byte just before that data,
\* times two, is the length of the data in bytes.
C14_SampleCountMatchesAttachedPcm ==
    \A i \in DOMAIN calls :
        calls[i].cmd = "encodeSpeechPacket"
        => LET w == written[calls[i].wrote]
               pcm == calls[i].arg
           IN  /\ w[4] = PCM
               /\ SubSeq(w, Len(w) - Len(pcm) + 1, Len(w)) = pcm
               /\ w[Len(w) - Len(pcm)] * 2 = Len(pcm)

\* C15: every setRateP call is rejected (never pending, never resolved by a
\* packet), passed nothing to #sp.write and holds no reply; the buffers written
\* are those of the other calls only.
C15_SetRatePFailsAtOnce ==
    /\ \A i \in DOMAIN calls :
         calls[i].cmd = "setRateP"
         => /\ calls[i].state = "rejected"
            /\ calls[i].wrote = 0
            /\ calls[i].by = 0
            /\ calls[i].reply = NoPacket
    /\ Len(written) = Cardinality({ i \in DOMAIN calls : calls[i].cmd # "setRateP" })

\* C15's case: setRateP called, then a command that writes, then packets
\* published.
C15_Witness ==
    /\ Len(calls) = 2
    /\ calls[1].cmd = "setRateP"
    /\ calls[2].cmd = "setRateT"
    /\ Len(written) = 1
    /\ Len(packets) = 2
    /\ calls[2].state = "resolved"

\* C16: once the device has sent all it sends, no call whose write failed is
\* still waiting or has resolved: the call was rejected.
C16_WriteFailureIsReported ==
    \A i \in DOMAIN calls :
        (calls[i].failed /\ pos = Len(Wire)) => calls[i].state = "rejected"

\* C17: a consumed Control frame with payload [0x0B, b, ...] was published as
\* an init result that is successful exactly when b = 0, and an init call that
\* resolved resolved by such a frame, with true exactly when its b is 0.
C17_InitTrueIffStatusZero ==
    /\ \A k \in DOMAIN frames :
         ( /\ frames[k].type = CONTROL
           /\ Len(frames[k].payload) >= 2
           /\ frames[k].payload[1] = 11 )
         => /\ frames[k].tag = "packet"
            /\ packets[frames[k].pub].controlPacketType = "PKT_INIT"
            /\ packets[frames[k].pub].successfulInit = (frames[k].payload[2] = 0)
    /\ \A i \in DOMAIN calls :
         (calls[i].cmd = "init" /\ calls[i].state = "resolved")
         => LET f == frames[FrameOf(calls[i].by)] IN
                /\ f.type = CONTROL
                /\ Len(f.payload) >= 2
                /\ f.payload[1] = 11
                /\ Result(calls[i]) = (f.payload[2] = 0)

\* C17's case: an init call resolved with true by a reply with status 0, then
\* a second init call resolved with false by a reply with status 255.
C17_Witness ==
    /\ script = << Frame(CONTROL, InitOkReply), Frame(CONTROL, InitOtherReply) >>
    /\ Len(calls) = 2
    /\ calls[1].cmd = "init"
    /\ calls[2].cmd = "init"
    /\ calls[1].by = 1
    /\ calls[2].by = 2
    /\ Result(calls[1]) = TRUE
    /\ Result(calls[2]) = FALSE

\* The bytes of a Control payload after the field identifier and before the
\* last byte (none if the payload holds the field identifier alone).
TextBytes(payload) == SubSeq(payload, 2, Len(payload) - 1)

\* Whether a consumed frame is a Control frame with field identifier 0x31 or
\* 0x30.
IsTextFrame(f) ==
    f.type = CONTROL /\ Len(f.payload) >= 1 /\ f.payload[1] \in { 48, 49 }

\* C18 as stated: the text decoded from a Control frame with field identifier
\* 0x31 or 0x30 is, character for character, the bytes after the field
\* identifier without the last of them.
C18_TextIsAllButLastByte ==
    \A k \in DOMAIN frames :
        IsTextFrame(frames[k])
        => /\ frames[k].tag = "packet"
           /\ packets[frames[k].pub].text = TextBytes(frames[k].payload)

\* C18 as amended: the text is those bytes read as 7-bit ASCII, each byte
\* with its high bit cleared; field identifier 0x31 gives a version string and
\* 0x30 a product id.
C18_TextIsAsciiOfAllButLastByte ==
    \A k \in DOMAIN frames :
        IsTextFrame(frames[k])
        => /\ frames[k].tag = "packet"
           /\ packets[frames[k].pub].controlPacketType =
                  (IF frames[k].payload[1] = 49 THEN "PKT_VERSTRING" ELSE "PKT_PRODID")
           /\ packets[frames[k].pub].text =
                  [i \in DOMAIN TextBytes(frames[k].payload) |->
                      TextBytes(frames[k].payload)[i] % 128]

\* C18's case: a version frame with a delimiter, one without, and one holding
\* the field identifier alone, decoded to "BC", "" and "".
C18_Witness ==
    /\ Len(frames) = 3
    /\ frames[1].payload = OtherVersionReply
    /\ packets[frames[1].pub].text = << 66, 67 >>
    /\ frames[2].payload = VersionNoDelimiter
    /\ packets[frames[2].pub].text = << >>
    /\ frames[3].payload = VersionOnlyField
    /\ packets[frames[3].pub].text = << >>

\* C19: a 'data' handler whose drain runs on a buffer (the bytes buffered
\* before, then the chunk) that holds no magic byte leaves exactly that buffer,
\* consumes no frame, publishes nothing and does not throw.
C19_NoMagicByteRetainsAll ==
    [][ LET fed == buffer \o SubSeq(Wire, pos + 1, pos') IN
        (pos' > pos /\ IndexOf(fed, MAGIC) = -1)
        => /\ buffer' = fed
           /\ frames' = frames
           /\ packets' = packets
           /\ ~threw' ]_vars

\* C19's case: after a frame was consumed, two stray bytes that are not the
\* magic byte arrived and are both in the buffer.
C19_Witness ==
    /\ Len(script) = 3
    /\ script[2] = << 0 >>
    /\ script[3] = << 0 >>
    /\ Len(frames) = 1
    /\ buffer = << 0, 0 >>
    /\ pos = Len(Wire)

\* C20: after a 'data' handler, the buffer does not begin with a complete
\* frame that the drain processed (one of five bytes or more, which passes the
\* header check): the drain removed it, however its decode turned out.
C20_ProcessedFrameIsRemoved ==
    ~( /\ Len(buffer) >= 5
       /\ buffer[1] = MAGIC
       /\ Len(buffer) >= 4 + ReadUInt16BE(buffer, 1) )

\* Whether an item is one complete frame, and the packet it decodes to.
IsFrame(item) ==
    Len(item) >= 4 /\ item[1] = MAGIC /\ Len(item) = 4 + ReadUInt16BE(item, 1)

DecodedItem(item) == decodePacket(item[4], SubSeq(item, 5, Len(item)))

IsDecodableFrame(item) == IsFrame(item) /\ DecodedItem(item).tag = "packet"

\* C21: once k >= 2 complete decodable frames, sent back to back and nothing
\* else, have been received whole, in one feed or in several, k packets have
\* been published, the packets of the frames in the order of the frames.
C21_BackToBackFramesPublishedInOrder ==
    ( /\ Len(script) >= 2
      /\ \A i \in DOMAIN script : IsDecodableFrame(script[i])
      /\ pos = Len(Wire) )
    => /\ Len(packets) = Len(script)
       /\ \A i \in DOMAIN script : packets[i] = DecodedItem(script[i]).pkt

\* The calls awaiting a reply.
Awaiting == { i \in DOMAIN calls : calls[i].state = "pending" }

\* C22: at most one command of the top-level sequence is awaiting a reply at
\* any time.
C22_AtMostOneCommandAwaiting == Cardinality(Awaiting) <= 1

\* C23: after every 'data' handler the buffer is empty, or holds no magic
\* byte, or starts with the magic byte and holds an incomplete frame: fewer
\* bytes than the header check asks for, or fewer than 4 + length.
C23_BufferShapes ==
    \/ buffer = << >>
    \/ IndexOf(buffer, MAGIC) = -1
    \/ /\ buffer[1] = MAGIC
       /\ \/ PacketTooShort(buffer)
          \/ Len(buffer) < 4 + ReadUInt16BE(buffer, 1)

\* The frames a 'data' handler consumed: one recursive call of
\* tryDecodePacketsFromBuffer follows each of them.
C24_Recursions == Len(frames') - Len(frames)

\* C24: in every 'data' handler the drain ends, and the buffer (the bytes
\* buffered before, then the chunk) has shrunk by at least four bytes for each
\* recursive call made, so that the calls number at most a quarter of its
\* length.
C24_EachRecursionShrinksBufferByFour ==
    [][ pos' > pos
        => LET fed == Len(buffer) + (pos' - pos) IN
               /\ C24_Recursions >= 0
               /\ Len(buffer') <= fed - 4 * C24_Recursions
               /\ C24_Recursions <= fed \div 4 ]_vars

\* C24's case: one feed on which the drain recursed three times.
C24_Witness ==
    /\ ~split
    /\ pos = Len(Wire)
    /\ Len(frames) = 3
    /\ buffer = << >>

\* C25: a step that passes a buffer to #sp.write passes one, registers in the
\* same step the pending wait of the command that wrote it, subscribed from
\* the packets published so far on, and runs no 'data' handler; a step that
\* publishes packets runs no command; and no packet published after a
\* command's write that its filter passes is missed: the call has resolved, by
\* that packet or an earlier one.
C25_WriteAndSubscribeInOneStep ==
    [][ /\ written' # written
           => /\ Len(written') = Len(written) + 1
              /\ Len(calls') = Len(calls) + 1
              /\ calls'[Len(calls')].state = "pending"
              /\ calls'[Len(calls')].wrote = Len(written')
              /\ calls'[Len(calls')].since = Len(packets)
              /\ packets' = packets
              /\ buffer' = buffer
              /\ pos' = pos
        /\ packets' # packets
           => /\ written' = written
              /\ Len(calls') = Len(calls)
        /\ \A i \in DOMAIN calls' :
             calls'[i].wrote > 0
             => \A k \in (calls'[i].since + 1)..Len(packets') :
                    Matches(calls'[i].cmd, packets'[k])
                    => /\ calls'[i].state = "resolved"
                       /\ calls'[i].by \in (calls'[i].since + 1)..k ]_vars

\* C25's case: getVersion called when all but the last byte of a version
\* frame had been received, and resolved by that frame.
C25_Witness ==
    \E i \in DOMAIN calls : \E j \in DOMAIN script :
        /\ calls[i].cmd = "getVersion"
        /\ IsVersionFrame(script[j])
        /\ calls[i].at = ItemEnd(j) - 1
        /\ calls[i].state = "resolved"
        /\ calls[i].by = calls[i].since + 1
        /\ Result(calls[i]) = VersionText(script[j])

\* C26: with getVersion and setRateT outstanding together, a getVersion call
\* that resolved resolved by a VersionString reply (field identifier 0x31) and a
\* setRateT call that resolved resolved by a RateAck (field identifier 0x09);
\* and while no reply of its own kind has been published since its call, a call
\* is still pending, whatever else was published.
C26_EachResolvesOnItsOwnKind ==
    \A i \in DOMAIN calls :
        LET own == IF calls[i].cmd = "getVersion" THEN 49 ELSE 9
            kind == IF calls[i].cmd = "getVersion" THEN "PKT_VERSTRING" ELSE "PKT_RATET"
        IN  /\ calls[i].cmd \in { "getVersion", "setRateT" }
            /\ calls[i].state = "resolved"
               => /\ calls[i].reply.controlPacketType = kind
                  /\ frames[FrameOf(calls[i].by)].type = CONTROL
                  /\ FieldOf(frames[FrameOf(calls[i].by)].payload) = own
            /\ (\A k \in DOMAIN frames :
                    frames[k].type = CONTROL => FieldOf(frames[k].payload) # own)
               => calls[i].state = "pending"

\* C26's case: the RateAck arrived first and the VersionString second, the
\* reverse of the order of the calls; each call resolved by its own reply.
C26_Witness ==
    /\ script = << Frame(CONTROL, RateReply), Frame(CONTROL, VersionReply) >>
    /\ Len(calls) = 2
    /\ calls[1].cmd = "getVersion"
    /\ calls[2].cmd = "setRateT"
    /\ calls[1].by = 2
    /\ calls[2].by = 1
    /\ Result(calls[1]) = << 65 >>

====
